---- MODULE Spec2Model ----
(***************************************************************************)
(* A model of two pieces of the qrmi Python package:                       *)
(*                                                                         *)
(*   - IonQSamplerV2 (primitives/ionq/sampler.py): the construction of the *)
(*     sampler's Options and the submit / poll / fetch loop of run(),      *)
(*     executed by two samplers whose steps interleave, each against its   *)
(*     own resource client;                                                *)
(*   - QRMIBackend.check_faulty (primitives/ibm/backend.py): the scan of a *)
(*     circuit for instructions on faulty qubits or edges.                 *)
(*                                                                         *)
(* The resource client (QuantumResource) is external to the package: it is *)
(* modelled as a scripted stub whose replies are the inputs of run().      *)
(* Durations are in tenths of a second.                                    *)
(***************************************************************************)
EXTENDS Integers, Sequences, FiniteSets, TLC

\* ------------------------------------------------------------- bounds

\* The longest run of non-terminal replies a terminating stub gives.
MaxPolls == 2
\* The number of run() calls made on one sampler.
MaxRuns == 2

\* The number of instructions of a circuit given to check_faulty.
MaxInstrs == 2

\* Call counters are exact below CountCap and saturate there (a stub that never
\* reaches a terminal status is queried without bound).
CountCap == MaxPolls + 2

\* ---------------------------------------------------------- constants

\* Options.default_shots
DefaultShots == 1024
\* time.sleep(0.5) after Completed
SettleDelay == 5
\* time.sleep(1) after a non-terminal status
RetryDelay == 10

\* Python's None, for an int-valued argument / for a returned value.
None == -1
NoResult == "None"
Invocations == {"a", "b"}

\* TaskStatus values the loop tells apart, and the others.
Completed == "Completed"
Failed == "Failed"
NonTerminal == {"Queued", "Running", "Unknown"}
NoStatus == "-"
\* A call of the client that raises instead of returning.
Error == "Error"

Values == {"r1", "r2"}
Circuits == {"bell"}
ShotArgs == {None, 0, 100}

NoTask == << >>

\* ------------------------------------------------ the sampler's options

\* The `options` argument of IonQSamplerV2.__init__: None, or a dict (kw) with
\* any of the keys default_shots and run_options (a dict, written as a number).
NoKeys == [k \in {} |-> 0]
OptionInputs ==
    { [none |-> TRUE, kw |-> NoKeys],
      [none |-> FALSE, kw |-> NoKeys],
      [none |-> FALSE, kw |-> [run_options |-> 1]],
      [none |-> FALSE, kw |-> [default_shots |-> 2048]] }

\* bool(options): None and the empty dict are falsy.
Truthy(opts) == ~opts.none /\ DOMAIN opts.kw # {}

\* The dataclass Options: a keyword that is not given takes the field's default
\* (run_options: the empty dict, written 0).
OptionsNew(kw) ==
    [ default_shots |->
          IF "default_shots" \in DOMAIN kw THEN kw.default_shots ELSE DefaultShots,
      run_options |->
          IF "run_options" \in DOMAIN kw THEN kw.run_options ELSE 0 ]

\* self._options = Options(**options) if options else Options()
OptionsOf(opts) == IF Truthy(opts) THEN OptionsNew(opts.kw) ELSE OptionsNew(NoKeys)

\* ------------------------------------------------------ the client stub

\* What the resource client does with one task: task_start raises or returns;
\* task_status gives n non-terminal replies and then `final` for ever (never:
\* non-terminal replies for ever); task_result returns `value` or raises.
Stubs ==
    { [startOk |-> FALSE, never |-> FALSE, n |-> 0, final |-> Failed, value |-> Error] }
    \cup { [startOk |-> TRUE, never |-> TRUE, n |-> 0, final |-> Failed, value |-> Error] }
    \cup { [startOk |-> TRUE, never |-> FALSE, n |-> k, final |-> f, value |-> Error] :
             k \in 0..MaxPolls, f \in {Failed, Error} }
    \cup { [startOk |-> TRUE, never |-> FALSE, n |-> k, final |-> Completed, value |-> v] :
             k \in 0..MaxPolls, v \in Values \cup {Error} }

\* The replies the stub may give to the q-th task_status call for a task.
StubStatus(st, q) ==
    IF st.never \/ q <= st.n THEN NonTerminal ELSE {st.final}

Inc(n) == IF n < CountCap THEN n + 1 ELSE n

NoCalls ==
    [ start |-> 0, status |-> 0, result |-> 0,
      statusArgs |-> {}, resultArgs |-> {}, completed |-> {}, termAt |-> 0 ]

NoWaits == [ prints |-> 0, sleeps |-> 0, waited |-> 0, msg |-> NoStatus ]

NoPayload == [ input |-> << >>, shots |-> None, obj |-> 0 ]
NoArgs == [ circuit |-> "", shots |-> None ]
NoStub == [startOk |-> FALSE, never |-> FALSE, n |-> 0, final |-> Failed, value |-> Error]

VARIABLES
    optArg,       \* the options argument each sampler was built with
    options,      \* self._options
    pc,           \* where each sampler's run() is
    args,         \* the arguments of the current run() call
    shots,        \* run's local `shots`
    payload,      \* run's local `payload`
    new_task_id,  \* run's local `new_task_id`
    status,       \* run's local `status`
    ret,          \* what run() returned
    raisedBy,     \* the client call whose exception left run()
    stub,         \* the client's script for the current task
    nextTaskId,   \* per client: the identifiers handed out so far
    received,     \* per client: the payload of the last task_start
    seen,         \* per client: the payload objects received so far
    resubmitted,  \* per client: it received a payload object a second time
    calls,        \* per run: the client calls made
    since,        \* per run: messages and sleeps since the last task_status call
    runs,         \* per sampler: the run() calls made
    properties,   \* QRMIBackend._properties
    circuit,      \* the circuit given to check_faulty
    outcome       \* how check_faulty ended

samplerVars ==
    << optArg, options, pc, args, shots, payload, new_task_id, status, ret,
       raisedBy, stub, nextTaskId, received, seen, resubmitted, calls, since, runs >>
faultyVars == << properties, circuit, outcome >>
vars == << samplerVars, faultyVars >>

\* --------------------------------------------------- IonQSamplerV2.run

\* A variant of DefaultedShots: `if not shots`, which also replaces 0 shots.
DefaultedShots_Falsy(shotsArg, opts) ==
    IF shotsArg = None \/ shotsArg = 0 THEN opts.default_shots ELSE shotsArg

\* if shots is None: shots = self._options.default_shots
DefaultedShots(shotsArg, opts) ==
    IF shotsArg = None THEN opts.default_shots ELSE shotsArg

\* qasm3.dumps(circuit, ...): the OpenQASM 3 text of the circuit.
Dumps(c) == << "OPENQASM 3.0", c >>

\* Payload.IonQCloud(input=qasm3_str, shots=shots): the k-th object a sampler builds.
IonQCloud(input, sh, k) == [ input |-> input, shots |-> sh, obj |-> k ]

\* A variant of Bind: the variable is a module-level global, one for all invocations.
Bind_Global(f, i, v) == [j \in DOMAIN f |-> v]

\* An assignment to a local variable of invocation i.
Bind(f, i, v) == [f EXCEPT ![i] = v]

\* Variants of AfterStatus: Failed fetches the result; Failed is polled again;
\* Completed fetches without the settle delay.
AfterStatus_FetchOnFailed(s) ==
    IF s \in {Completed, Failed} THEN "sleep_settle" ELSE "sleep_retry"

AfterStatus_RetryOnFailed(s) ==
    IF s = Completed THEN "sleep_settle" ELSE "sleep_retry"

AfterStatus_NoSettle(s) ==
    IF s = Completed THEN "task_result"
    ELSE IF s = Failed THEN "returned"
    ELSE "sleep_retry"

\* The branch run() takes on a status: settle and fetch, break, or wait and re-query.
AfterStatus(s) ==
    IF s = Completed THEN "sleep_settle"
    ELSE IF s = Failed THEN "returned"
    ELSE "sleep_retry"

\* run(circuit, shots) is called, for the limit-th time at most, with shots drawn
\* from shotArgs and a client that follows one of stubs: the lines up to the
\* construction of the payload.
RunBegin(i, shotArgs, stubs, limit) ==
    /\ pc[i] \in {"idle", "returned", "raised"}
    /\ runs[i] < limit
    /\ \E c \in Circuits, s \in shotArgs, st \in stubs :
          LET sh == DefaultedShots(s, options[i]) IN
          /\ args' = [args EXCEPT ![i] = [circuit |-> c, shots |-> s]]
          /\ shots' = Bind(shots, i, sh)
          /\ payload' = Bind(payload, i, IonQCloud(Dumps(c), sh, runs[i] + 1))
          /\ stub' = [stub EXCEPT ![i] = st]
    /\ runs' = [runs EXCEPT ![i] = @ + 1]
    /\ pc' = [pc EXCEPT ![i] = "task_start"]
    /\ new_task_id' = Bind(new_task_id, i, NoTask)
    /\ status' = Bind(status, i, NoStatus)
    /\ ret' = [ret EXCEPT ![i] = NoResult]
    /\ raisedBy' = [raisedBy EXCEPT ![i] = ""]
    /\ calls' = [calls EXCEPT ![i] = NoCalls]
    /\ since' = [since EXCEPT ![i] = NoWaits]
    /\ UNCHANGED << optArg, options, nextTaskId, received, seen, resubmitted >>
    /\ UNCHANGED faultyVars

\* A variant of TaskStart: a failed submission is caught and tried again.
TaskStart_Retry(i) ==
    /\ pc[i] = "task_start"
    /\ calls' = [calls EXCEPT ![i].start = Inc(@)]
    /\ received' = [received EXCEPT ![i] = payload[i]]
    /\ seen' = [seen EXCEPT ![i] = @ \cup {payload[i].obj}]
    /\ resubmitted' = [resubmitted EXCEPT ![i] = @ \/ payload[i].obj \in seen[i]]
    /\ IF stub[i].startOk
       THEN /\ nextTaskId' = [nextTaskId EXCEPT ![i] = @ + 1]
            /\ new_task_id' = Bind(new_task_id, i, << i, nextTaskId[i] + 1 >>)
            /\ pc' = [pc EXCEPT ![i] = "task_status"]
       ELSE UNCHANGED << pc, nextTaskId, new_task_id >>
    /\ UNCHANGED << optArg, options, args, shots, payload, status, ret, raisedBy, stub,
                    since, runs >>
    /\ UNCHANGED faultyVars

\* new_task_id = self._qrmi.task_start(payload); an exception leaves run().
TaskStart(i) ==
    /\ pc[i] = "task_start"
    /\ calls' = [calls EXCEPT ![i].start = Inc(@)]
    /\ received' = [received EXCEPT ![i] = payload[i]]
    /\ seen' = [seen EXCEPT ![i] = @ \cup {payload[i].obj}]
    /\ resubmitted' = [resubmitted EXCEPT ![i] = @ \/ payload[i].obj \in seen[i]]
    /\ IF stub[i].startOk
       THEN /\ nextTaskId' = [nextTaskId EXCEPT ![i] = @ + 1]
            /\ new_task_id' = Bind(new_task_id, i, << i, nextTaskId[i] + 1 >>)
            /\ pc' = [pc EXCEPT ![i] = "task_status"]
            /\ UNCHANGED raisedBy
       ELSE /\ pc' = [pc EXCEPT ![i] = "raised"]
            /\ raisedBy' = [raisedBy EXCEPT ![i] = "task_start"]
            /\ UNCHANGED << nextTaskId, new_task_id >>
    /\ UNCHANGED << optArg, options, args, shots, payload, status, ret, stub, since, runs >>
    /\ UNCHANGED faultyVars

\* status = self._qrmi.task_status(new_task_id) and the branch on it; the
\* else branch prints its message here and sleeps in RetrySleep.
TaskStatus(i) ==
    /\ pc[i] = "task_status"
    /\ \E reply \in StubStatus(stub[i], calls[i].status + 1) :
          LET q == Inc(calls[i].status)
              id == new_task_id[i]
              next == AfterStatus(reply)
          IN
          /\ calls' = [calls EXCEPT
                          ![i].status = q,
                          ![i].statusArgs = @ \cup {id},
                          ![i].completed = IF reply = Completed THEN @ \cup {id} ELSE @,
                          ![i].termAt = IF @ = 0 /\ reply \in {Completed, Failed}
                                        THEN q ELSE @]
          /\ IF reply = Error
             THEN /\ pc' = [pc EXCEPT ![i] = "raised"]
                  /\ raisedBy' = [raisedBy EXCEPT ![i] = "task_status"]
                  /\ since' = [since EXCEPT ![i] = NoWaits]
                  /\ UNCHANGED status
             ELSE /\ status' = Bind(status, i, reply)
                  /\ pc' = [pc EXCEPT ![i] = next]
                  /\ since' = [since EXCEPT ![i] =
                                  IF next = "sleep_retry"
                                  THEN [NoWaits EXCEPT !.prints = 1, !.msg = reply]
                                  ELSE NoWaits]
                  /\ UNCHANGED raisedBy
    /\ UNCHANGED << optArg, options, args, shots, payload, new_task_id, ret, stub,
                    nextTaskId, received, seen, resubmitted, runs >>
    /\ UNCHANGED faultyVars

\* time.sleep(0.5)
SettleSleep(i) ==
    /\ pc[i] = "sleep_settle"
    /\ since' = [since EXCEPT ![i].sleeps = @ + 1, ![i].waited = @ + SettleDelay]
    /\ pc' = [pc EXCEPT ![i] = "task_result"]
    /\ UNCHANGED << optArg, options, args, shots, payload, new_task_id, status, ret,
                    raisedBy, stub, nextTaskId, received, seen, resubmitted, calls, runs >>
    /\ UNCHANGED faultyVars

\* A variant of TaskResult: the result is fetched and the `return` is missing.
TaskResult_NoReturn(i) ==
    /\ pc[i] = "task_result"
    /\ calls' = [calls EXCEPT ![i].result = Inc(@),
                              ![i].resultArgs = @ \cup {new_task_id[i]}]
    /\ IF stub[i].value = Error
       THEN /\ pc' = [pc EXCEPT ![i] = "raised"]
            /\ raisedBy' = [raisedBy EXCEPT ![i] = "task_result"]
       ELSE /\ pc' = [pc EXCEPT ![i] = "returned"]
            /\ UNCHANGED raisedBy
    /\ UNCHANGED << optArg, options, args, shots, payload, new_task_id, status, ret, stub,
                    nextTaskId, received, seen, resubmitted, since, runs >>
    /\ UNCHANGED faultyVars

\* return self._qrmi.task_result(new_task_id).value
TaskResult(i) ==
    /\ pc[i] = "task_result"
    /\ calls' = [calls EXCEPT ![i].result = Inc(@),
                              ![i].resultArgs = @ \cup {new_task_id[i]}]
    /\ IF stub[i].value = Error
       THEN /\ pc' = [pc EXCEPT ![i] = "raised"]
            /\ raisedBy' = [raisedBy EXCEPT ![i] = "task_result"]
            /\ UNCHANGED ret
       ELSE /\ ret' = [ret EXCEPT ![i] = [value |-> stub[i].value].value]
            /\ pc' = [pc EXCEPT ![i] = "returned"]
            /\ UNCHANGED raisedBy
    /\ UNCHANGED << optArg, options, args, shots, payload, new_task_id, status, stub,
                    nextTaskId, received, seen, resubmitted, since, runs >>
    /\ UNCHANGED faultyVars

\* Variants of RetrySleep: the loop gives up after MaxPolls status queries;
\* the retry wait is as short as the settle delay.
RetrySleep_Bounded(i) ==
    /\ pc[i] = "sleep_retry"
    /\ since' = [since EXCEPT ![i].sleeps = @ + 1, ![i].waited = @ + RetryDelay]
    /\ pc' = [pc EXCEPT ![i] = IF calls[i].status >= MaxPolls + 1
                               THEN "returned" ELSE "task_status"]
    /\ UNCHANGED << optArg, options, args, shots, payload, new_task_id, status, ret,
                    raisedBy, stub, nextTaskId, received, seen, resubmitted, calls, runs >>
    /\ UNCHANGED faultyVars

RetrySleep_Short(i) ==
    /\ pc[i] = "sleep_retry"
    /\ since' = [since EXCEPT ![i].sleeps = @ + 1, ![i].waited = @ + SettleDelay]
    /\ pc' = [pc EXCEPT ![i] = "task_status"]
    /\ UNCHANGED << optArg, options, args, shots, payload, new_task_id, status, ret,
                    raisedBy, stub, nextTaskId, received, seen, resubmitted, calls, runs >>
    /\ UNCHANGED faultyVars

\* time.sleep(1), then the next iteration of the loop
RetrySleep(i) ==
    /\ pc[i] = "sleep_retry"
    /\ since' = [since EXCEPT ![i].sleeps = @ + 1, ![i].waited = @ + RetryDelay]
    /\ pc' = [pc EXCEPT ![i] = "task_status"]
    /\ UNCHANGED << optArg, options, args, shots, payload, new_task_id, status, ret,
                    raisedBy, stub, nextTaskId, received, seen, resubmitted, calls, runs >>
    /\ UNCHANGED faultyVars

\* The steps run() takes by itself once it was called.
Proceed(i) ==
    \/ TaskStart(i)
    \/ TaskStatus(i)
    \/ SettleSleep(i)
    \/ TaskResult(i)
    \/ RetrySleep(i)

\* ------------------------------------------- QRMIBackend.check_faulty

\* The qubits of a circuit, in the circuit's order: circuit.qubits.
CircuitQubits == << "q0", "q1", "q2" >>
Bits == { CircuitQubits[k] : k \in 1..Len(CircuitQubits) }
Indices == 0..(Len(CircuitQubits) - 1)

\* The bit tuples an instruction acts on, and the qubit index lists of a gate of
\* the backend properties: one qubit, an ordered pair, or three neighbours.
BitTuples ==
    { << x >> : x \in Bits }
    \cup { t \in Bits \X Bits : t[1] # t[2] }
    \cup { << CircuitQubits[k], CircuitQubits[k + 1], CircuitQubits[k + 2] >> :
             k \in 1..(Len(CircuitQubits) - 2) }
IndexTuples ==
    { << a >> : a \in Indices }
    \cup { t \in Indices \X Indices : t[1] # t[2] }
    \cup { << a, a + 1, a + 2 >> : a \in 0..(Len(CircuitQubits) - 3) }

\* A gate's name, by the number of its qubits.
GateName(t) == IF Len(t) = 1 THEN "x" ELSE IF Len(t) = 2 THEN "cx" ELSE "ccx"

\* The instructions of a circuit: a gate on any of the bit tuples, or a barrier
\* across bits in the circuit's order.
Instructions ==
    { [name |-> GateName(t), qubits |-> t] : t \in BitTuples }
    \cup { [name |-> "barrier", qubits |-> t] :
             t \in { u \in BitTuples :
                       \A k \in 1..(Len(u) - 1) :
                           \E m, n \in 1..Len(CircuitQubits) :
                               m < n /\ CircuitQubits[m] = u[k]
                                     /\ CircuitQubits[n] = u[k + 1] } }

RECURSIVE SeqsUpTo(_, _)
SeqsUpTo(S, n) ==
    IF n = 0 THEN { << >> }
    ELSE LET shorter == SeqsUpTo(S, n - 1) IN
         shorter \cup { Append(q, x) : q \in { r \in shorter : Len(r) = n - 1 }, x \in S }

CircuitInputs == [ qubits : {CircuitQubits}, data : SeqsUpTo(Instructions, MaxInstrs) ]

\* self._properties: None, or properties whose faulty_qubits() and faulty_gates()
\* return these (the code only tests membership in them).
NoProperties == [ none |-> TRUE, faulty_qubits |-> {}, faulty_gates |-> {} ]
PropertiesInputs ==
    { NoProperties }
    \cup [ none : {FALSE},
           faulty_qubits : SUBSET Indices,
           faulty_gates : { {} } \cup { { [gate |-> GateName(t), qubits |-> t] } : t \in IndexTuples } ]

\* circuit.find_bit(x).index: the position of bit x in the circuit, from 0.
FindBit(c, x) == (CHOOSE k \in 1..Len(c.qubits) : c.qubits[k] = x) - 1

\* qubit_indices = tuple(circuit.find_bit(x).index for x in instr.qubits)
QubitIndices(c, instr) == [ k \in 1..Len(instr.qubits) |-> FindBit(c, instr.qubits[k]) ]

\* A variant of FaultyEdges: gates of any size, the pair taken in either order.
FaultyEdges_Unordered(gates) ==
    { g.qubits : g \in gates }
    \cup { << g.qubits[2], g.qubits[1] >> : g \in { h \in gates : Len(h.qubits) = 2 } }

\* faulty_edges = [tuple(gate.qubits) for gate in faulty_gates if len(gate.qubits) > 1]
FaultyEdges(gates) == { g.qubits : g \in { h \in gates : Len(h.qubits) > 1 } }

\* for circ_qubit in qubit_indices: if circ_qubit in faulty_qubits: raise ValueError
RECURSIVE ScanQubits(_, _)
ScanQubits(indices, faulty_qubits) ==
    IF indices = << >> THEN "ok"
    ELSE IF Head(indices) \in faulty_qubits THEN "ValueError(qubit)"
    ELSE ScanQubits(Tail(indices), faulty_qubits)

\* A variant of CheckInstr: barriers are checked like any instruction.
CheckInstr_NoBarrierSkip(c, instr, faulty_qubits, faulty_edges) ==
    LET qubit_indices == QubitIndices(c, instr) IN
    IF ScanQubits(qubit_indices, faulty_qubits) # "ok" THEN "ValueError(qubit)"
    ELSE IF Len(qubit_indices) = 2 /\ qubit_indices \in faulty_edges
         THEN "ValueError(edge)"
    ELSE "ok"

\* The body of the loop over circuit.data, for one instruction.
CheckInstr(c, instr, faulty_qubits, faulty_edges) ==
    IF instr.name = "barrier" THEN "ok"
    ELSE LET qubit_indices == QubitIndices(c, instr) IN
         IF ScanQubits(qubit_indices, faulty_qubits) # "ok" THEN "ValueError(qubit)"
         ELSE IF Len(qubit_indices) = 2 /\ qubit_indices \in faulty_edges
              THEN "ValueError(edge)"
         ELSE "ok"

\* for instr in circuit.data: the first instruction that raises ends the loop.
RECURSIVE ScanData(_, _, _, _)
ScanData(c, data, faulty_qubits, faulty_edges) ==
    IF data = << >> THEN "returned"
    ELSE LET r == CheckInstr(c, Head(data), faulty_qubits, faulty_edges) IN
         IF r # "ok" THEN r
         ELSE ScanData(c, Tail(data), faulty_qubits, faulty_edges)

\* check_faulty(circuit) on a backend with properties props.
check_faulty(props, c) ==
    IF props.none THEN "returned"
    ELSE ScanData(c, c.data, props.faulty_qubits, FaultyEdges(props.faulty_gates))

NoCircuit == [ qubits |-> CircuitQubits, data |-> << >> ]

\* backend.check_faulty(circuit) is called.
CheckFaulty ==
    /\ outcome = "-"
    /\ \E c \in CircuitInputs :
          /\ circuit' = c
          /\ outcome' = check_faulty(properties, c)
    /\ UNCHANGED properties
    /\ UNCHANGED samplerVars

\* Two samplers, each built by IonQSamplerV2(qrmi, options=...) on its own client.
SamplerInit ==
    /\ \E o \in OptionInputs : optArg = [i \in Invocations |-> o]
    /\ options = [i \in Invocations |-> OptionsOf(optArg[i])]
    /\ pc = [i \in Invocations |-> "idle"]
    /\ args = [i \in Invocations |-> NoArgs]
    /\ shots = [i \in Invocations |-> None]
    /\ payload = [i \in Invocations |-> NoPayload]
    /\ new_task_id = [i \in Invocations |-> NoTask]
    /\ status = [i \in Invocations |-> NoStatus]
    /\ ret = [i \in Invocations |-> NoResult]
    /\ raisedBy = [i \in Invocations |-> ""]
    /\ stub = [i \in Invocations |-> NoStub]
    /\ nextTaskId = [i \in Invocations |-> 0]
    /\ received = [i \in Invocations |-> NoPayload]
    /\ seen = [i \in Invocations |-> {}]
    /\ resubmitted = [i \in Invocations |-> FALSE]
    /\ calls = [i \in Invocations |-> NoCalls]
    /\ since = [i \in Invocations |-> NoWaits]
    /\ runs = [i \in Invocations |-> 0]

Init ==
    /\ SamplerInit
    /\ properties = NoProperties
    /\ circuit = NoCircuit
    /\ outcome = "-"

\* One sampler, called up to MaxRuns times, one call after the other.
Next == RunBegin("a", ShotArgs, Stubs, MaxRuns) \/ Proceed("a")

Spec == Init /\ [][Next]_vars

\* run() is sequential code: each of its calls and sleeps returns.
FairSpec == Spec /\ WF_vars(Proceed("a"))

\* Two invocations of run(), one on each sampler, whose steps interleave.
PairInit == Init /\ \A i \in Invocations : optArg[i].none

PairNext == \E i \in Invocations : RunBegin(i, {100}, Stubs, 1) \/ Proceed(i)

PairSpec == PairInit /\ [][PairNext]_vars

\* A backend built from a configuration and properties, and calls of check_faulty.
FaultyInit ==
    /\ SamplerInit /\ \A i \in Invocations : optArg[i].none
    /\ properties \in PropertiesInputs
    /\ circuit = NoCircuit
    /\ outcome = "-"

FaultyNext == CheckFaulty

FaultySpec == FaultyInit /\ [][FaultyNext]_vars

\* ------------------------------------------------------------ claims

Terminal == {Completed, Failed}
Ended(i) == pc[i] \in {"returned", "raised"}

\* The stub lets the task start and answers Completed on query N = n + 1, after
\* non-terminal replies only, and its task_result returns.
CompletesOnNth(i) ==
    /\ stub[i].startOk /\ ~stub[i].never
    /\ stub[i].final = Completed /\ stub[i].value # Error

\* C1: against a client that answers non-terminal on queries 1..N-1 and Completed
\* on query N, run() never makes more than one task_start, N task_status and one
\* task_result call, fetches only after the N-th query, does not raise, and when
\* it has returned it has made exactly 1, N and 1 of them and returned the value
\* of the fetched result.
C1_ExactPolls ==
    \A i \in Invocations :
        (CompletesOnNth(i) /\ calls[i].start > 0) =>
            LET N == stub[i].n + 1 IN
            /\ calls[i].start = 1
            /\ calls[i].status <= N
            /\ calls[i].result <= 1
            /\ calls[i].result = 1 => calls[i].status = N
            /\ pc[i] # "raised"
            /\ pc[i] = "returned" =>
                  /\ calls[i].status = N
                  /\ calls[i].result = 1
                  /\ ret[i] = stub[i].value

C1_Witness ==
    /\ CompletesOnNth("a") /\ stub["a"].n = MaxPolls
    /\ pc["a"] = "returned" /\ ret["a"] = "r2"
    /\ calls["a"].status = MaxPolls + 1

\* C2: once task_status has returned Failed (on the first query or after
\* non-terminal statuses only), run() has ended by returning None: it raised
\* nothing, made no task_result call, no further task_status call and no sleep.
C2_FailedEndsWithoutResult ==
    \A i \in Invocations :
        status[i] = Failed =>
            /\ pc[i] = "returned"
            /\ ret[i] = NoResult
            /\ raisedBy[i] = ""
            /\ calls[i].result = 0
            /\ calls[i].resultArgs = {}
            /\ calls[i].status = stub[i].n + 1
            /\ calls[i].status = calls[i].termAt
            /\ since[i].sleeps = 0

C2_Witness ==
    /\ status["a"] = Failed /\ pc["a"] = "returned"
    /\ calls["a"].status = MaxPolls + 1

\* C4: every task_status and task_result call of a run is made with the
\* identifier its own task_start returned, after that call; no task_status call is
\* made or pending once a terminal status was observed; task_result is called at
\* most once and only for an identifier for which Completed was observed.
C4_QueryDiscipline ==
    \A i \in Invocations :
        LET own == << i, nextTaskId[i] >> IN
        /\ calls[i].statusArgs \subseteq {own}
        /\ calls[i].resultArgs \subseteq {own}
        /\ calls[i].status > 0 =>
              /\ calls[i].start = 1 /\ stub[i].startOk
              /\ new_task_id[i] = own /\ nextTaskId[i] > 0
        /\ calls[i].termAt # 0 => calls[i].status = calls[i].termAt
        /\ pc[i] = "task_status" => calls[i].termAt = 0
        /\ calls[i].result <= 1
        /\ calls[i].resultArgs \subseteq calls[i].completed
        /\ pc[i] = "task_result" => new_task_id[i] \in calls[i].completed

C4_Witness ==
    /\ calls["a"].resultArgs = {<< "a", 2 >>}
    /\ calls["a"].status = MaxPolls + 1
    /\ calls["a"].termAt = MaxPolls + 1

\* C5: the settle delay starts after the status query that returned Completed and
\* before any task_result call, and a task_result call is issued or was made only
\* with exactly one sleep of SettleDelay elapsed since that query.
C5_SettleBeforeFetch ==
    \A i \in Invocations :
        /\ pc[i] = "sleep_settle" =>
              /\ status[i] = Completed
              /\ calls[i].result = 0
              /\ since[i].sleeps = 0 /\ since[i].waited = 0
        /\ (pc[i] = "task_result" \/ calls[i].result > 0) =>
              /\ status[i] = Completed
              /\ since[i].sleeps = 1
              /\ since[i].waited = SettleDelay

C5_Witness ==
    /\ calls["a"].result = 1 /\ pc["a"] = "returned"
    /\ since["a"].waited = SettleDelay

\* C6: when task_start fails, run() has raised that failure after exactly one
\* task_start call, without a task_status call, a task_result call or a sleep.
C6_StartFailurePropagates ==
    \A i \in Invocations :
        (~stub[i].startOk /\ calls[i].start > 0) =>
            /\ pc[i] = "raised"
            /\ raisedBy[i] = "task_start"
            /\ calls[i].start = 1
            /\ calls[i].status = 0
            /\ calls[i].result = 0
            /\ since[i].sleeps = 0
            /\ new_task_id[i] = NoTask

C6_Witness ==
    /\ pc["a"] = "raised" /\ raisedBy["a"] = "task_start"
    /\ calls["a"].start = 1 /\ runs["a"] = 2

\* The run of sampler i is polling a client that never gives a terminal status.
NeverPolling(i) ==
    /\ stub[i].startOk /\ stub[i].never
    /\ pc[i] \in {"task_status", "sleep_retry"}

\* C3 as stated: against a client that never returns a terminal status, run()
\* ends after finitely many status queries.
C3_TerminatesWhenNeverTerminal ==
    \A i \in {"a"} : NeverPolling(i) ~> Ended(i)

\* C3, amended: the loop has no iteration bound or timeout. Against a client that
\* never returns a terminal status run() stays in the loop and goes on querying,
\* one retry sleep after each query; run() returns only after a terminal status.
C3_PollsUntilTerminal ==
    /\ [](\A i \in Invocations : pc[i] = "returned" => status[i] \in Terminal)
    /\ [][\A i \in Invocations : NeverPolling(i) => NeverPolling(i)']_vars
    /\ \A i \in {"a"} :
          /\ (NeverPolling(i) /\ pc[i] = "sleep_retry") ~> (pc[i] = "task_status")
          /\ (NeverPolling(i) /\ pc[i] = "task_status") ~> (pc[i] = "sleep_retry")

C3_Witness ==
    /\ NeverPolling("a") /\ pc["a"] = "task_status"
    /\ calls["a"].status = CountCap

\* How a run against stub st ends when it runs alone: << pc, ret >>.
AloneOutcome(st) ==
    IF ~st.startOk THEN << "raised", NoResult >>
    ELSE IF st.final = Failed THEN << "returned", NoResult >>
    ELSE IF st.final = Error THEN << "raised", NoResult >>
    ELSE IF st.value = Error THEN << "raised", NoResult >>
    ELSE << "returned", st.value >>

\* The state of sampler i's run and of its client.
FrameOf(i) ==
    << pc[i], args[i], shots[i], payload[i], new_task_id[i], status[i], ret[i],
       raisedBy[i], stub[i], nextTaskId[i], received[i], seen[i], resubmitted[i],
       calls[i], since[i], runs[i], options[i] >>

\* C7: of two interleaved invocations, each calls task_status and task_result
\* only with the identifier its own client's task_start returned, ends as it would
\* alone against its client, and no step of one changes anything of the other.
C7_NoInterference ==
    /\ [](\A i \in Invocations :
            /\ calls[i].statusArgs \cup calls[i].resultArgs
                  \subseteq {<< i, nextTaskId[i] >>}
            /\ NoTask \notin calls[i].statusArgs \cup calls[i].resultArgs
            /\ calls[i].status > 0 => new_task_id[i] = << i, nextTaskId[i] >>
            /\ Ended(i) /\ ~stub[i].never => << pc[i], ret[i] >> = AloneOutcome(stub[i])
            /\ stub[i].startOk /\ stub[i].never => ~Ended(i))
    /\ [][\A i, j \in Invocations :
            (i # j /\ pc[i]' # pc[i]) => FrameOf(j)' = FrameOf(j)]_vars

C7_Witness ==
    /\ pc["a"] = "returned" /\ ret["a"] = "r1" /\ calls["a"].status = MaxPolls + 1
    /\ pc["b"] = "sleep_retry" /\ calls["b"].status = MaxPolls
    /\ stub["b"].final = Completed /\ stub["b"].value = "r2"

\* The shot count the claim prescribes for a run.
ExpectedShots(shotsArg, opts) ==
    IF shotsArg # None THEN shotsArg
    ELSE IF ~opts.none /\ "default_shots" \in DOMAIN opts.kw THEN opts.kw.default_shots
    ELSE 1024

\* C8: the k-th run() of a sampler submits, in exactly one task_start call, the
\* k-th payload the sampler built and no payload twice, and that payload's shots
\* are the shots argument, or the options' default_shots (1024 unless the options
\* given to the sampler set it) when the argument is None.
C8_FreshPayload ==
    \A i \in Invocations :
        /\ ~resubmitted[i]
        /\ payload[i].obj = runs[i]
        /\ calls[i].start > 0 =>
              /\ calls[i].start = 1
              /\ received[i] = payload[i]
              /\ received[i].obj = runs[i]
              /\ received[i].shots = ExpectedShots(args[i].shots, optArg[i])
              /\ seen[i] = 1..runs[i]
        /\ calls[i].start = 0 => seen[i] = 1..(runs[i] - 1)

C8_Witness ==
    /\ runs["a"] = 2 /\ calls["a"].start = 1
    /\ args["a"].shots = None /\ received["a"].shots = 2048
    /\ seen["a"] = {1, 2}

\* C10: after a reply that is neither Completed nor Failed (unknown values
\* included) run() has printed one message with that status and is about to sleep;
\* it issues the next task_status call after exactly that one message and one
\* sleep of RetryDelay (longer than SettleDelay); it has made no task_result call
\* and has not returned.
C10_RetryCadence ==
    /\ RetryDelay > SettleDelay
    /\ \A i \in Invocations :
        /\ pc[i] = "sleep_retry" =>
              /\ status[i] \in NonTerminal
              /\ since[i] = [prints |-> 1, sleeps |-> 0, waited |-> 0, msg |-> status[i]]
        /\ (pc[i] = "task_status" /\ calls[i].status > 0) =>
              /\ status[i] \in NonTerminal
              /\ since[i] = [prints |-> 1, sleeps |-> 1, waited |-> RetryDelay,
                             msg |-> status[i]]
        /\ status[i] \in NonTerminal =>
              /\ pc[i] \in {"sleep_retry", "task_status", "raised"}
              /\ pc[i] = "raised" => raisedBy[i] = "task_status"
              /\ calls[i].result = 0
              /\ ret[i] = NoResult
        /\ (pc[i] = "task_status" /\ calls[i].status = 0) => since[i] = NoWaits

C10_Witness ==
    /\ pc["a"] = "task_status" /\ status["a"] = "Unknown"
    /\ calls["a"].status = MaxPolls
    /\ since["a"].waited = RetryDelay

\* Instruction k of the circuit is not a barrier and acts on a faulty qubit, or
\* on exactly two qubits whose index pair, in the instruction's order, is the
\* qubit list of a faulty gate.
UsesFaulty(props, c, k) ==
    LET instr == c.data[k]
        index(x) == CHOOSE n \in Indices : c.qubits[n + 1] = x
    IN
    /\ instr.name # "barrier"
    /\ \/ \E m \in 1..Len(instr.qubits) : index(instr.qubits[m]) \in props.faulty_qubits
       \/ /\ Len(instr.qubits) = 2
          /\ \E g \in props.faulty_gates :
                /\ Len(g.qubits) > 1
                /\ g.qubits = << index(instr.qubits[1]), index(instr.qubits[2]) >>

\* C9: check_faulty raises ValueError exactly when the backend has properties and
\* some instruction of the circuit other than a barrier acts on a faulty qubit or,
\* being a two-qubit instruction, on a faulty edge; otherwise it returns.
C9_RaisesIffFaulty ==
    outcome # "-" =>
        /\ outcome \in {"returned", "ValueError(qubit)", "ValueError(edge)"}
        /\ outcome # "returned" <=>
              /\ ~properties.none
              /\ \E k \in 1..Len(circuit.data) : UsesFaulty(properties, circuit, k)

C9_Witness ==
    /\ outcome = "ValueError(edge)"
    /\ properties.faulty_qubits = {2}
    /\ Len(circuit.data) = 2
    /\ circuit.data[1] = [name |-> "barrier", qubits |-> << "q2" >>]
    /\ circuit.data[2].qubits = << "q1", "q0" >>

====
